---------------------------- MODULE Spec2Model ----------------------------
(***************************************************************************)
(* LDAPAuthenticator (src/ldapauthenticator/ldapauthenticator.py) as a     *)
(* state machine: the configured authenticator object, one authenticate    *)
(* or add_user call at a time, and the directory and the host the call     *)
(* talks to.                                                               *)
(*                                                                         *)
(* Python strings are tuples of one-character strings, so that lower(),    *)
(* strip(), split() and escape_filter_chars() are computed, not assumed.   *)
(* Group distinguished names are atoms ("g1", "g2", "g3").                 *)
(***************************************************************************)
EXTENDS Integers, Sequences, FiniteSets, TLC

(***************************************************************************)
(* Python values                                                           *)
(***************************************************************************)

\* Python's None: a tuple that is no string of characters.
None == <<"None">>

\* The characters str.strip() and str.split() treat as whitespace.
Whitespace == {" ", "\t", "\n"}

\* str.lower() on one character of the modelled alphabet.
LowerOf ==
    ("A" :> "a") @@ ("B" :> "b") @@ ("C" :> "c") @@ ("D" :> "d") @@ ("L" :> "l")
        @@ ("P" :> "p") @@ ("S" :> "s")

lower_char(c) == IF c \in DOMAIN LowerOf THEN LowerOf[c] ELSE c

\* str.lower()
lower(s) == [i \in 1..Len(s) |-> lower_char(s[i])]

RECURSIVE lstrip(_)
lstrip(s) == IF s # <<>> /\ Head(s) \in Whitespace THEN lstrip(Tail(s)) ELSE s

RECURSIVE rstrip(_)
rstrip(s) ==
    IF s # <<>> /\ s[Len(s)] \in Whitespace THEN rstrip(SubSeq(s, 1, Len(s) - 1)) ELSE s

\* str.strip()
strip(s) == rstrip(lstrip(s))

\* str.split(): the maximal runs of non-whitespace characters, in order.
RECURSIVE split_acc(_, _, _)
split_acc(s, cur, out) ==
    IF s = <<>>
    THEN IF cur = <<>> THEN out ELSE Append(out, cur)
    ELSE IF Head(s) \in Whitespace
         THEN split_acc(Tail(s), <<>>, IF cur = <<>> THEN out ELSE Append(out, cur))
         ELSE split_acc(Tail(s), Append(cur, Head(s)), out)

split(s) == split_acc(s, <<>>, <<>>)

\* `not s or s.strip() == ''` as the configuration checks write it.
undefined_or_blank(s) == s = None \/ s = <<>> \/ strip(s) = <<>>

\* The elements of a list, as set(list) gives them.
Range(s) == {s[i] : i \in 1..Len(s)}

\* list(set(xs)): the distinct elements in one (unspecified, fixed) order.
RECURSIVE list_of_set(_)
list_of_set(S) ==
    IF S = {} THEN <<>>
    ELSE LET x == CHOOSE y \in S : TRUE IN <<x>> \o list_of_set(S \ {x})

(***************************************************************************)
(* Input Validator                                                         *)
(***************************************************************************)

\* ldap3.utils.conv.escape_filter_chars on one character (RFC 4515).
escape_char(c) ==
    CASE c = "\\"  -> <<"\\", "5", "c">>
      [] c = "*"   -> <<"\\", "2", "a">>
      [] c = "("   -> <<"\\", "2", "8">>
      [] c = ")"   -> <<"\\", "2", "9">>
      [] c = "NUL" -> <<"\\", "0", "0">>
      [] OTHER     -> <<c>>

RECURSIVE escape_filter_chars(_)
escape_filter_chars(s) ==
    IF s = <<>> THEN <<>> ELSE escape_char(Head(s)) \o escape_filter_chars(Tail(s))

normalize_username(username) == escape_filter_chars(lower(username))

\* username_regex when no pattern is compiled (the trait's default, None).
NoRegex == [compiled |-> FALSE, cls |-> {}, anchored |-> FALSE]

\* re.match of a compiled pattern of the shape [cls]+ (or [cls]+$ when
\* `anchored`): the match starts at the first character and need not reach
\* the end of the string unless the pattern itself ends with $.
regex_match(regex, s) ==
    /\ s # <<>>
    /\ s[1] \in regex.cls
    /\ regex.anchored => \A i \in 1..Len(s) : s[i] \in regex.cls

validate_username(username, username_regex) ==
    IF "/" \in Range(username) THEN FALSE
    ELSE IF username = <<>> THEN FALSE
    ELSE IF ~username_regex.compiled THEN TRUE
    ELSE regex_match(username_regex, username)

Digits == {"0", "1", "2", "3", "4", "5", "6", "7", "8", "9"}

LabelChars == {"a", "b", "c", "d", "l", "p", "s", "-"} \cup Digits

\* s cut at every occurrence of the character sep (sep itself dropped).
RECURSIVE cut_acc(_, _, _, _)
cut_acc(s, sep, cur, out) ==
    IF s = <<>> THEN Append(out, cur)
    ELSE IF Head(s) = sep THEN cut_acc(Tail(s), sep, <<>>, Append(out, cur))
    ELSE cut_acc(Tail(s), sep, Append(cur, Head(s)), out)

cut(s, sep) == cut_acc(s, sep, <<>>, <<>>)

\* [0-9]|[1-9][0-9]|1[0-9]{2}|2[0-4][0-9]|25[0-5]
is_octet(s) ==
    \/ Len(s) = 1 /\ s[1] \in Digits
    \/ Len(s) = 2 /\ s[1] \in Digits \ {"0"} /\ s[2] \in Digits
    \/ Len(s) = 3 /\ s[1] = "1" /\ s[2] \in Digits /\ s[3] \in Digits
    \/ Len(s) = 3 /\ s[1] = "2" /\ s[2] \in {"0", "1", "2", "3", "4"} /\ s[3] \in Digits
    \/ Len(s) = 3 /\ s[1] = "2" /\ s[2] = "5" /\ s[3] \in {"0", "1", "2", "3", "4", "5"}

\* (?!-)[a-z0-9\-]{1,63}(?<!-)
is_label(s) ==
    /\ Len(s) >= 1
    /\ Len(s) <= 63
    /\ \A i \in 1..Len(s) : s[i] \in LabelChars
    /\ s[1] # "-"
    /\ s[Len(s)] # "-"

host_ip_regex(host) ==
    LET parts == cut(host, ".")
    IN  Len(parts) = 4 /\ \A i \in 1..4 : is_octet(parts[i])

host_name_regex(host) ==
    LET parts == cut(host, ".")
    IN  Len(parts) >= 2 /\ \A i \in 1..Len(parts) : is_label(parts[i])

\* ^(ldaps?://)(hostname):([0-9]{3})$
host_url_regex(host) ==
    LET plain  == <<"l", "d", "a", "p", ":", "/", "/">>
        secure == <<"l", "d", "a", "p", "s", ":", "/", "/">>
        rest   == IF Len(host) >= 7 /\ SubSeq(host, 1, 7) = plain
                  THEN SubSeq(host, 8, Len(host))
                  ELSE IF Len(host) >= 8 /\ SubSeq(host, 1, 8) = secure
                  THEN SubSeq(host, 9, Len(host))
                  ELSE None
        parts  == cut(rest, ":")
    IN  /\ rest # None
        /\ Len(parts) = 2
        /\ host_name_regex(parts[1])
        /\ Len(parts[2]) = 3
        /\ \A i \in 1..3 : parts[2][i] \in Digits

validate_host(host) ==
    host_ip_regex(host) \/ host_name_regex(host) \/ host_url_regex(host)


(***************************************************************************)
(* Server Pool Builder                                                     *)
(***************************************************************************)

\* populate_server_pool passing over an invalid host and going on.
RECURSIVE populate_server_pool_skip(_)
populate_server_pool_skip(hosts) ==
    IF hosts = <<>> THEN <<>>
    ELSE LET host == lower(strip(Head(hosts)))
         IN  IF ~validate_host(host) THEN populate_server_pool_skip(Tail(hosts))
             ELSE <<host>> \o populate_server_pool_skip(Tail(hosts))

\* Lines 433-440: hosts are trimmed and lowercased, and added until the first
\* one validate_host refuses (the loop breaks there).
RECURSIVE populate_server_pool(_)
populate_server_pool(hosts) ==
    IF hosts = <<>> THEN <<>>
    ELSE LET host == lower(strip(Head(hosts)))
         IN  IF ~validate_host(host) THEN <<>>
             ELSE <<host>> \o populate_server_pool(Tail(hosts))

\* cast_server_hosts splitting without the test of the type.
cast_server_hosts_unchecked(server_hosts) == split(server_hosts.v[1])

\* Lines 429-430: a str server_hosts is split into a list.  A str value is
\* held as the one-item tuple of its text, a list as the tuple of its items.
cast_server_hosts(server_hosts) ==
    IF server_hosts.t = "str" THEN split(server_hosts.v[1]) ELSE server_hosts.v

(***************************************************************************)
(* Search filter                                                           *)
(***************************************************************************)

\* user_search_filter.format(username=username): the template is a tuple of
\* characters in which the replacement field is the single item "{username}".
RECURSIVE format_filter(_, _)
format_filter(template, uname) ==
    IF template = <<>> THEN <<>>
    ELSE (IF Head(template) = "{username}" THEN uname ELSE <<Head(template)>>)
             \o format_filter(Tail(template), uname)

(***************************************************************************)
(* Configurations, inputs and directory contents                           *)
(***************************************************************************)

\* The interpreter's recursion limit, scaled to the model.
MaxDepth == 5

Groups == {"g1", "g2", "g3"}

ServerHosts ==
    { [t |-> "str",  v |-> << <<"A", ".", "b", " ", "1", ".", "2", ".", "3", ".", "4">> >>],
      [t |-> "list", v |-> << <<" ", "L", "D", "A", "P", ":", "/", "/", "a", ".", "b",
                                 ":", "3", "8", "9", " ">>,
                               <<"a", ".", ".", "b">>,
                               <<"c", ".", "d">> >>],
      [t |-> "list", v |-> << <<"-", "a", ".", "b">>, <<"c", ".", "d">> >>] }

BindUserDns == {None, <<" ">>, <<"s", "v", "c">>}

BindUserPasswords == {None, <<" ">>, <<"s", "p", "w">>}

UserSearchBases == {<<>>, <<" ">>, <<"o", "u">>}

UserSearchFilters == {<<>>, <<" ">>, <<"(", "u", "=", "{username}", ")">>}

AllowedGroups == {<<>>, <<"g1">>, <<"g1", "g2">>, <<"g3">>}

\* username_regex: None, or the compiled pattern [a-l]+
UsernameRegexes ==
    {NoRegex, [compiled |-> TRUE, cls |-> {"a", "b", "c", "d", "l"}, anchored |-> FALSE]}

Usernames == {<<>>, <<"A", "l">>, <<"a", "/", "b">>, <<"a", "*">>, <<"0", "a">>}

Passwords == {None, <<" ">>, <<"p", "w">>}

\* What a group search answers for each group: the DNs of the entries the
\* group filter matches, in the directory's order.
NoNesting == [g \in Groups |-> <<>>]

Graphs ==
    { NoNesting,
      [NoNesting EXCEPT !["g1"] = <<"g3">>],
      [NoNesting EXCEPT !["g1"] = <<"g2", "g3">>, !["g2"] = <<"g3">>],
      [NoNesting EXCEPT !["g1"] = <<"g2">>, !["g2"] = <<"g1">>],
      [NoNesting EXCEPT !["g3"] = <<"g3">>] }

UserDn == <<"u", "=", "a", "l">>

\* One entry of conn.response.  keys: the keys of the entry's dict;
\* memberOf: the value under attributes[user_membership_attribute], or None
\* when attributes has no such key.
Entry(dn, memberOf) == [keys |-> {"dn", "attributes"}, dn |-> dn, memberOf |-> memberOf]

\* A search result reference: no 'attributes' key.
Referral == [keys |-> {"uri"}, dn |-> None, memberOf |-> None]

Responses ==
    { <<>>,
      <<Entry(UserDn, <<"g1">>)>>,
      <<Entry(UserDn, <<"g3">>)>>,
      <<Entry(UserDn, <<>>)>>,
      <<Entry(UserDn, None)>>,
      <<Entry(<<>>, <<"g1">>)>>,
      <<Entry(<<" ">>, <<"g1">>)>>,
      <<Entry(UserDn, <<"g1">>), Entry(<<"u", "=", "b">>, <<"g1">>)>>,
      <<Referral>> }

\* create_user_home_dir_cmd: a list of arguments, each a tuple of pieces in
\* which the text USERNAME is the single piece "USERNAME".
CreateUserHomeDirCmds == { << <<"mkhomedir_helper">>, <<"--home=", "USERNAME">> >> }

\* The names of the users the hub adds.
UserNames == {<<"a", "l">>, <<"b", "o", "b">>}

\* What pwd.getpwnam and os.path.isdir find: no passwd entry for the user
\* (getpwnam raises KeyError), a home directory that is absent, or one that
\* exists.
HomeDirStates == {"no_user", "absent", "exists"}

\* How Popen(cmd) ends: the command cannot be started (OSError), or it runs
\* and exits with a return code.
PopenOutcomes ==
    { [started |-> FALSE, returncode |-> 0],
      [started |-> TRUE,  returncode |-> 0],
      [started |-> TRUE,  returncode |-> 1] }

\* How opening the connection with auto_bind=AUTO_BIND_TLS_BEFORE_BIND ends.
ConnectOutcomes == {"socket_error", "tls_error", "bind_refused", "bound"}

\* A bind succeeds only with valid credentials; it may fail with them.
BindResults(valid) == IF valid THEN BOOLEAN ELSE {FALSE}

(***************************************************************************)
(* State                                                                   *)
(***************************************************************************)

VARIABLES
    self,              \* the authenticator's configuration traits
    pc,                \* where the authenticate call stands
    data,              \* the call's argument: username and password as given
    username,          \* local: the normalized username
    conn_servers,      \* local: the hosts of the server pool
    conn,              \* local: the connection object (state, bound user)
    permitted_groups,  \* local
    nested_groups,     \* local: Unbound until the loop of line 482 assigns it
    gi,                \* position of the loop of line 482 in allowed_groups
    stack,             \* the frames of get_nested_groups, innermost last
    graph,             \* directory: nested members of each group
    response,          \* conn.response of the user search
    cred_ok,           \* directory: the found DN and the given password match
    auth_user_dn,      \* local
    result,            \* what the call returned or raised
    net,               \* the operations sent to the directory, in order
    au,                \* the add_user call: position, user, what it did
    past               \* the configuration at startup; whether an attempt has ended

vars == <<self, pc, data, username, conn_servers, conn, permitted_groups,
          nested_groups, gi, stack, graph, response, cred_ok, auth_user_dn,
          result, net, au, past>>

Unbound == <<"unbound">>

NoConn == [state |-> "none", user |-> None]

NoData == [username |-> None, password |-> None]

\* The call has not ended.
NoResult == [kind |-> "None", value |-> None]

Rejected == [kind |-> "Rejected", value |-> None]

Accepted(u) == [kind |-> "Accepted", value |-> u]

Raised(exc) == [kind |-> "Raised", value |-> <<exc>>]

\* One operation sent to the directory.  For a bind: the identity, the secret
\* and whose secret it is, "service" (bind_user_password) or "caller"
\* (data['password']), and whether the directory accepted it.  For a search:
\* the base, the filter and the number of entries answered.
NetOp(op, ok) ==
    [op |-> op, ok |-> ok, dn |-> None, pw |-> None, cred |-> "none",
     base |-> "none", filter |-> None, n |-> 0]

BindOp(dn, pw, cred, ok) ==
    [op |-> "bind", ok |-> ok, dn |-> dn, pw |-> pw, cred |-> cred,
     base |-> "none", filter |-> None, n |-> 0]

SearchOp(base, filter, n) ==
    [op |-> "search", ok |-> TRUE, dn |-> None, pw |-> None, cred |-> "none",
     base |-> base, filter |-> filter, n |-> n]

\* What add_user did: one entry for each call out of the authenticator.
AddUserOp(op, cmd, returncode) == [op |-> op, cmd |-> cmd, returncode |-> returncode]

\* add_user returned normally.
Returned == [kind |-> "Returned", value |-> None]

\* No add_user call is running.
NoAddUser ==
    [pc |-> "idle", username |-> None, home |-> "none", log |-> <<>>, result |-> NoResult]

Init ==
    /\ self \in [server_hosts        : ServerHosts,
                 bind_user_dn        : BindUserDns,
                 bind_user_password  : BindUserPasswords,
                 user_search_base    : UserSearchBases,
                 user_search_filter  : UserSearchFilters,
                 filter_by_group     : BOOLEAN,
                 allow_nested_groups : BOOLEAN,
                 allowed_groups      : AllowedGroups,
                 username_regex      : UsernameRegexes,
                 create_user_home_dir     : BOOLEAN,
                 create_user_home_dir_cmd : CreateUserHomeDirCmds]
    /\ pc = "idle"
    /\ au = NoAddUser
    /\ past = [config |-> self, attempt |-> FALSE]
    /\ data = NoData
    /\ username = None
    /\ conn_servers = <<>>
    /\ conn = NoConn
    /\ permitted_groups = None
    /\ nested_groups = Unbound
    /\ gi = 0
    /\ stack = <<>>
    /\ graph = NoNesting
    /\ response = <<>>
    /\ cred_ok = FALSE
    /\ auth_user_dn = None
    /\ result = NoResult
    /\ net = <<>>


(***************************************************************************)
(* authenticate                                                            *)
(***************************************************************************)

\* The call ends: it returns (Accepted, Rejected) or raises.
Finish(r) == pc' = "done" /\ result' = r

\* Line 424
empty_password(password) == password = None \/ strip(password) = <<>>

\* config_undefined without the test of user_search_filter.
config_undefined_no_filter(s) ==
    \/ undefined_or_blank(s.bind_user_dn)
    \/ undefined_or_blank(s.bind_user_password)
    \/ undefined_or_blank(s.user_search_base)

\* Lines 446-459
config_undefined(s) ==
    \/ undefined_or_blank(s.bind_user_dn)
    \/ undefined_or_blank(s.bind_user_password)
    \/ undefined_or_blank(s.user_search_base)
    \/ undefined_or_blank(s.user_search_filter)

\* Lines 413-459: everything authenticate does before it opens a connection.
authenticate(d) ==
    /\ pc = "idle"
    /\ au.pc = "idle"
    /\ UNCHANGED <<au, past>>
    /\ data' = d
    /\ username' = normalize_username(d.username)
    /\ UNCHANGED <<conn, permitted_groups, nested_groups, gi, stack, graph,
                   response, cred_ok, auth_user_dn, net>>
    /\ IF \/ ~validate_username(normalize_username(d.username), self.username_regex)
          \/ empty_password(d.password)
       THEN /\ Finish(Rejected)
            /\ UNCHANGED <<self, conn_servers>>
       ELSE LET hosts == cast_server_hosts(self.server_hosts)
                pool  == populate_server_pool(hosts)
            IN  /\ self' = [self EXCEPT !.server_hosts = [t |-> "list", v |-> hosts]]
                /\ conn_servers' = pool
                /\ IF Len(pool) < 1 \/ config_undefined(self)
                   THEN Finish(Rejected)
                   ELSE pc' = "connect" /\ UNCHANGED result

\* What ldap3.Connection(..., auto_bind=AUTO_BIND_TLS_BEFORE_BIND) sends.
connect_ops(s, outcome) ==
    LET open == NetOp("open", outcome # "socket_error")
        tls  == NetOp("start_tls", outcome # "tls_error")
        bind == BindOp(s.bind_user_dn, s.bind_user_password, "service",
                       outcome = "bound")
    IN  CASE outcome = "socket_error" -> <<open>>
          [] outcome = "tls_error"    -> <<open, tls>>
          [] OTHER                    -> <<open, tls, bind>>

\* Lines 463-466 and 372-390: only LDAPBindError is caught (and gives None).
ldap_connection ==
    /\ pc = "connect"
    /\ UNCHANGED <<au, past>>
    /\ \E outcome \in ConnectOutcomes :
          /\ net' = net \o connect_ops(self, outcome)
          /\ CASE outcome = "socket_error" ->
                    Finish(Raised("LDAPSocketOpenError")) /\ UNCHANGED conn
               [] outcome = "tls_error" ->
                    Finish(Raised("LDAPStartTLSError")) /\ UNCHANGED conn
               [] outcome = "bind_refused" ->
                    pc' = "bind" /\ conn' = NoConn /\ UNCHANGED result
               [] OTHER ->
                    /\ pc' = "bind"
                    /\ conn' = [state |-> "open", user |-> self.bind_user_dn]
                    /\ UNCHANGED result
    /\ UNCHANGED <<self, data, username, conn_servers, permitted_groups,
                   nested_groups, gi, stack, graph, response, cred_ok, auth_user_dn>>

\* not_bound with the result of conn.bind() left unread.
not_bound_unread(bound) == FALSE

\* Line 469: the test made of the result of conn.bind().
not_bound(bound) == ~bound

\* Lines 469-477: `if not conn or not conn.bind()`.
service_bind ==
    /\ pc = "bind"
    /\ UNCHANGED <<au, past>>
    /\ IF conn.state = "none"
       THEN Finish(Rejected) /\ UNCHANGED net
       ELSE \E bound \in BOOLEAN :
               /\ net' = Append(net, BindOp(self.bind_user_dn,
                                            self.bind_user_password, "service", bound))
               /\ IF not_bound(bound) THEN Finish(Rejected)
                  ELSE pc' = "groups" /\ UNCHANGED result
    /\ UNCHANGED <<self, data, username, conn_servers, conn, permitted_groups,
                   nested_groups, gi, stack, graph, response, cred_ok, auth_user_dn>>


\* Line 480: permitted_groups = copy.deepcopy(self.allowed_groups), and the
\* test of line 481.
compile_permitted_groups ==
    /\ pc = "groups"
    /\ UNCHANGED <<au, past>>
    /\ permitted_groups' = self.allowed_groups
    /\ IF self.allow_nested_groups
       THEN pc' = "for_group" /\ gi' = 1
       ELSE pc' = "search" /\ UNCHANGED gi
    /\ UNCHANGED <<self, data, username, conn_servers, conn, nested_groups, stack,
                   graph, response, cred_ok, auth_user_dn, result, net>>

\* Lines 396-400: a new frame of get_nested_groups.  conn.search replaces
\* conn.response; the frame keeps iterating the list it got.
gng_frame(g, group) == [group |-> group, response |-> g[group], i |-> 1, nested_groups |-> <<>>]

\* Lines 397-400: the search for the members of `group`; the formatted group
\* filter is held as the group it names.
gng_search(group, answer) == SearchOp("group_search_base", <<group>>, Len(answer))

\* Lines 482-483: one turn of `for group in self.allowed_groups`, up to the
\* search of the get_nested_groups call it makes.  The directory's groups are
\* read for the first time by the first of these searches.
for_group ==
    /\ pc = "for_group"
    /\ UNCHANGED <<au, past>>
    /\ gi <= Len(self.allowed_groups)
    /\ \E g \in (IF gi = 1 THEN Graphs ELSE {graph}) :
          /\ graph' = g
          /\ stack' = <<gng_frame(g, self.allowed_groups[gi])>>
          /\ net' = Append(net, gng_search(self.allowed_groups[gi],
                                           g[self.allowed_groups[gi]]))
    /\ pc' = "gng"
    /\ UNCHANGED <<self, data, username, conn_servers, conn, permitted_groups,
                   nested_groups, gi, response, cred_ok, auth_user_dn, result>>

\* Line 484, after the loop: permitted_groups.extend(nested_groups).  With an
\* empty allowed_groups the loop never assigned nested_groups.
extend_permitted_groups ==
    /\ pc = "for_group"
    /\ UNCHANGED <<au, past>>
    /\ gi > Len(self.allowed_groups)
    /\ IF nested_groups = Unbound
       THEN Finish(Raised("UnboundLocalError")) /\ UNCHANGED permitted_groups
       ELSE /\ permitted_groups' = permitted_groups \o nested_groups
            /\ pc' = "search"
            /\ UNCHANGED result
    /\ UNCHANGED <<self, data, username, conn_servers, conn, nested_groups, gi,
                   stack, graph, response, cred_ok, auth_user_dn, net>>

\* Lines 402-404: the next entry of the frame's response: its dn is added and
\* get_nested_groups is called on it (a frame deeper than the interpreter
\* allows raises RecursionError).
gng_recurse ==
    /\ pc = "gng"
    /\ UNCHANGED <<au, past>>
    /\ LET top == stack[Len(stack)]
       IN  /\ top.i <= Len(top.response)
           /\ LET dn   == top.response[top.i]
                  here == [top EXCEPT !.nested_groups = Append(@, dn)]
                  rest == [stack EXCEPT ![Len(stack)] = here]
              IN  IF Len(stack) >= MaxDepth
                  THEN /\ stack' = rest
                       /\ Finish(Raised("RecursionError"))
                       /\ UNCHANGED net
                  ELSE /\ stack' = Append(rest, gng_frame(graph, dn))
                       /\ net' = Append(net, gng_search(dn, graph[dn]))
                       /\ UNCHANGED <<pc, result>>
    /\ UNCHANGED <<self, data, username, conn_servers, conn, permitted_groups,
                   nested_groups, gi, graph, response, cred_ok, auth_user_dn>>

\* Lines 406-407: what a frame returns.
gng_result(frame) == list_of_set(Range(frame.nested_groups))

\* Lines 405-407 and 483: the innermost frame returns; its caller extends its
\* own list (line 405) or, for the outermost frame, line 483 assigns
\* nested_groups and the loop moves on.
gng_return ==
    /\ pc = "gng"
    /\ UNCHANGED <<au, past>>
    /\ LET top == stack[Len(stack)]
       IN  /\ top.i > Len(top.response)
           /\ IF Len(stack) = 1
              THEN /\ nested_groups' = gng_result(top)
                   /\ gi' = gi + 1
                   /\ stack' = <<>>
                   /\ pc' = "for_group"
              ELSE /\ stack' = [SubSeq(stack, 1, Len(stack) - 1) EXCEPT
                                   ![Len(stack) - 1] =
                                       [@ EXCEPT !.nested_groups = @ \o gng_result(top),
                                                 !.i = @ + 1]]
                   /\ UNCHANGED <<nested_groups, gi, pc>>
    /\ UNCHANGED <<self, data, username, conn_servers, conn, permitted_groups,
                   graph, response, cred_ok, auth_user_dn, result, net>>

\* Lines 487-497: the user search.  The directory answers with any of the
\* modelled results, and holds whether the found DN and the caller's password
\* are valid credentials.
user_search ==
    /\ pc = "search"
    /\ UNCHANGED <<au, past>>
    /\ \E answer \in Responses, valid \in BOOLEAN :
          /\ response' = answer
          /\ cred_ok' = valid
          /\ net' = Append(net, SearchOp("user_search_base",
                                         format_filter(self.user_search_filter, username),
                                         Len(answer)))
    /\ pc' = "inspect"
    /\ UNCHANGED <<self, data, username, conn_servers, conn, permitted_groups,
                   nested_groups, gi, stack, graph, auth_user_dn, result>>

Unbind == NetOp("unbind", TRUE)

\* Line 500
no_results(resp) == Len(resp) = 0 \/ "attributes" \notin resp[1].keys

\* several_results taking the first of several entries.
several_results_first(resp) == FALSE

\* Line 505
several_results(resp) == Len(resp) > 1

\* Line 517: `not dn or dn.strip == ''`; the second test compares the bound
\* method with '' and is never true.
dn_undefined(dn) == dn = None \/ dn = <<>>

\* Line 542
allowed_memberships(auth_user_memberships, permitted) ==
    Range(auth_user_memberships) \cap Range(permitted)

\* may_bind with the sense of filter_by_group inverted.
may_bind_inverted(memberships, permitted, filter_by_group) ==
    allowed_memberships(memberships, permitted) # {} \/ filter_by_group

\* Line 543
may_bind(memberships, permitted, filter_by_group) ==
    allowed_memberships(memberships, permitted) # {} \/ ~filter_by_group

\* Lines 500-546 and 562-567: what authenticate does with the search result
\* before the rebind.
handle_search_results ==
    /\ pc = "inspect"
    /\ UNCHANGED <<au, past>>
    /\ IF no_results(response)
       THEN Finish(Rejected) /\ UNCHANGED <<conn, net, auth_user_dn>>
       ELSE IF several_results(response)
       THEN Finish(Rejected) /\ UNCHANGED <<conn, net, auth_user_dn>>
       ELSE IF dn_undefined(response[1].dn)
       THEN /\ Finish(Rejected)
            /\ conn' = [conn EXCEPT !.state = "closed"]
            /\ net' = Append(net, Unbind)
            /\ UNCHANGED auth_user_dn
       ELSE IF response[1].memberOf = None
       THEN /\ Finish(Raised("KeyError"))
            /\ auth_user_dn' = response[1].dn
            /\ UNCHANGED <<conn, net>>
       ELSE IF response[1].memberOf = <<>>
       THEN /\ Finish(Rejected)
            /\ auth_user_dn' = response[1].dn
            /\ conn' = [conn EXCEPT !.state = "closed"]
            /\ net' = Append(net, Unbind)
       ELSE IF may_bind(response[1].memberOf, permitted_groups, self.filter_by_group)
       THEN /\ pc' = "rebind"
            /\ auth_user_dn' = response[1].dn
            /\ UNCHANGED <<conn, net, result>>
       ELSE /\ Finish(Rejected)
            /\ auth_user_dn' = response[1].dn
            /\ UNCHANGED <<conn, net>>
    /\ UNCHANGED <<self, data, username, conn_servers, permitted_groups,
                   nested_groups, gi, stack, graph, response, cred_ok>>

\* auth_response returning the username as the caller gave it.
auth_response_raw(uname, raw, dn) == raw

\* Line 561: what a successful call returns.
auth_response(uname, raw, dn) == uname

\* bind_failed_response carrying the DN that was refused.
bind_failed_response_dn(uname, raw, dn) == dn

\* Line 558: what a call whose user bind failed returns.
bind_failed_response(uname, raw, dn) == None

\* Line 567: `return auth_response`; the caller sees None as a rejection and
\* anything else as the authenticated name.
returned(value) == IF value = None THEN Rejected ELSE Accepted(value)

\* rebind_user binding with the name the caller gave.
rebind_user_raw(uname, raw, dn) == raw

\* Line 550: the identity of the rebind.
rebind_user(uname, raw, dn) == dn

\* Lines 549-561: conn.rebind(user=auth_user_dn, password=password), then
\* conn.bind() again, whose result decides, then conn.unbind().
user_bind ==
    /\ pc = "rebind"
    /\ UNCHANGED <<au, past>>
    /\ \E rebound \in BindResults(cred_ok), auth_bound \in BindResults(cred_ok) :
          LET who == rebind_user(username, data.username, auth_user_dn)
          IN  /\ net' = net \o <<BindOp(who, data.password, "caller", rebound),
                                 BindOp(who, data.password, "caller", auth_bound),
                                 Unbind>>
              /\ conn' = [state |-> "closed", user |-> who]
              /\ IF auth_bound
                 THEN Finish(returned(auth_response(username, data.username, auth_user_dn)))
                 ELSE Finish(returned(bind_failed_response(username, data.username,
                                                           auth_user_dn)))
    /\ UNCHANGED <<self, data, username, conn_servers, permitted_groups,
                   nested_groups, gi, stack, graph, response, cred_ok, auth_user_dn>>

\* The call is over; its locals are gone and the authenticator awaits the
\* next call.  authenticate holds no yield: a call runs to its end on the
\* event loop before the next attempt starts, so attempts follow one another
\* and share the authenticator object only.
authenticate_return ==
    /\ pc = "done"
    /\ UNCHANGED au
    /\ past' = [past EXCEPT !.attempt = TRUE]
    /\ pc' = "idle"
    /\ data' = NoData
    /\ username' = None
    /\ conn_servers' = <<>>
    /\ conn' = NoConn
    /\ permitted_groups' = None
    /\ nested_groups' = Unbound
    /\ gi' = 0
    /\ stack' = <<>>
    /\ graph' = NoNesting
    /\ response' = <<>>
    /\ cred_ok' = FALSE
    /\ auth_user_dn' = None
    /\ result' = NoResult
    /\ net' = <<>>
    /\ UNCHANGED self

(***************************************************************************)
(* add_user                                                                *)
(***************************************************************************)

\* Lines 283-285: pwd.getpwnam(username), then os.path.isdir(home_dir).
user_home_dir_exists(home) == home = "exists"

\* Line 291: arg.replace('USERNAME', username) on one argument.
RECURSIVE replace_username(_, _)
replace_username(arg, uname) ==
    IF arg = <<>> THEN <<>>
    ELSE (IF Head(arg) = "USERNAME" THEN uname ELSE <<Head(arg)>>)
             \o replace_username(Tail(arg), uname)

\* Line 291: the command line, the username appended.
home_dir_cmd(template, uname) ==
    [i \in 1..Len(template) |-> replace_username(template[i], uname)] \o <<uname>>

\* command_failed taking every return code for success.
command_failed_ignored(returncode) == FALSE

\* Line 295: `if create_dir.returncode`.
command_failed(returncode) == returncode # 0

\* Lines 270-276: add_user up to the decision on the home directory.
add_user(name) ==
    /\ pc = "idle"
    /\ au.pc = "idle"
    /\ \E home \in HomeDirStates :
          LET looked == [au EXCEPT !.username = name, !.home = home,
                                   !.log = <<AddUserOp("user_home_dir_exists", <<>>, 0)>>]
          IN  IF home = "no_user"
              THEN au' = [looked EXCEPT !.pc = "done", !.result = Raised("KeyError")]
              ELSE IF user_home_dir_exists(home)
              THEN au' = [looked EXCEPT !.pc = "super"]
              ELSE IF self.create_user_home_dir
              THEN au' = [looked EXCEPT !.pc = "create"]
              ELSE au' = [looked EXCEPT !.pc = "done", !.result = Raised("KeyError")]
    /\ UNCHANGED <<self, pc, data, username, conn_servers, conn, permitted_groups,
                   nested_groups, gi, stack, graph, response, cred_ok, auth_user_dn,
                   result, net, past>>

\* Lines 274 and 287-297: the creation command is started and awaited.
add_user_home_dir ==
    /\ au.pc = "create"
    /\ \E out \in PopenOutcomes :
          LET cmd == home_dir_cmd(self.create_user_home_dir_cmd, au.username)
          IN  IF ~out.started
              THEN au' = [au EXCEPT !.pc = "done", !.result = Raised("OSError")]
              ELSE IF command_failed(out.returncode)
              THEN au' = [au EXCEPT !.pc = "done", !.result = Raised("RuntimeError"),
                                    !.log = Append(@, AddUserOp("Popen", cmd, out.returncode))]
              ELSE au' = [au EXCEPT !.pc = "super",
                                    !.log = Append(@, AddUserOp("Popen", cmd, out.returncode))]
    /\ UNCHANGED <<self, pc, data, username, conn_servers, conn, permitted_groups,
                   nested_groups, gi, stack, graph, response, cred_ok, auth_user_dn,
                   result, net, past>>

\* Line 277: the host framework's add_user.
super_add_user ==
    /\ au.pc = "super"
    /\ au' = [au EXCEPT !.pc = "done", !.result = Returned,
                        !.log = Append(@, AddUserOp("super.add_user", <<>>, 0))]
    /\ UNCHANGED <<self, pc, data, username, conn_servers, conn, permitted_groups,
                   nested_groups, gi, stack, graph, response, cred_ok, auth_user_dn,
                   result, net, past>>

\* The add_user call is over.
add_user_return ==
    /\ au.pc = "done"
    /\ au' = NoAddUser
    /\ UNCHANGED <<self, pc, data, username, conn_servers, conn, permitted_groups,
                   nested_groups, gi, stack, graph, response, cred_ok, auth_user_dn,
                   result, net, past>>

add_user_call == \E name \in UserNames : add_user(name)

authenticate_call ==
    \E u \in Usernames, p \in Passwords : authenticate([username |-> u, password |-> p])

Next ==
    \/ authenticate_call
    \/ ldap_connection
    \/ service_bind
    \/ compile_permitted_groups
    \/ for_group
    \/ extend_permitted_groups
    \/ gng_recurse
    \/ gng_return
    \/ user_search
    \/ handle_search_results
    \/ user_bind
    \/ authenticate_return
    \/ add_user_call
    \/ add_user_home_dir
    \/ super_add_user
    \/ add_user_return

Spec == Init /\ [][Next]_vars


(***************************************************************************)
(* Properties                                                              *)
(***************************************************************************)

UserSearchAt(j) == net[j].op = "search" /\ net[j].base = "user_search_base"

UserSearched == \E j \in DOMAIN net : UserSearchAt(j)

ServiceBinds == {k \in DOMAIN net : net[k].op = "bind" /\ net[k].cred = "service"}

CallerBinds == {k \in DOMAIN net : net[k].cred = "caller"}

\* The user search answered exactly one entry that carries a DN and the
\* membership attribute.
OneUserRecord ==
    /\ UserSearched
    /\ Len(response) = 1
    /\ "attributes" \in response[1].keys
    /\ response[1].memberOf # None

\* The groups reachable from seed through one or more nestings.
RECURSIVE closure(_, _, _)
closure(g, S, n) ==
    IF n = 0 THEN S
    ELSE closure(g, S \cup UNION {Range(g[x]) : x \in S}, n - 1)

Reachable(g, seed) == closure(g, Range(g[seed]), Cardinality(Groups))

\* C1: authenticate returns Accepted only after, in this order, a successful
\* bind of the configured service identity, a user search that answered
\* exactly one record, and a successful bind of that record's DN with the
\* caller's password; when the service bind, the count of records or the user
\* bind fails, the call returns Rejected.
C1_AcceptedOnlyAfterBindSearchBind ==
    /\ result.kind = "Accepted" =>
          /\ \A i \in ServiceBinds : net[i].ok
          /\ \E i, j, k \in DOMAIN net :
                /\ i < j
                /\ j < k
                /\ i \in ServiceBinds
                /\ net[i].dn = self.bind_user_dn
                /\ net[i].pw = self.bind_user_password
                /\ UserSearchAt(j)
                /\ net[j].n = 1
                /\ k \in CallerBinds
                /\ net[k].op = "bind"
                /\ net[k].dn = response[1].dn
                /\ net[k].pw = data.password
                /\ net[k].ok
                /\ \A m \in CallerBinds : m <= k
    /\ ( /\ pc = "done"
         /\ \/ \E i \in ServiceBinds : ~net[i].ok
            \/ \E j \in DOMAIN net : UserSearchAt(j) /\ net[j].n # 1
            \/ \E k \in CallerBinds : ~net[k].ok /\ \A m \in CallerBinds : m <= k )
       => result = Rejected

C1_Witness == pc = "done" /\ result.kind = "Accepted" /\ Len(net) = 8

\* C2: a call that returns Rejected after a connection was opened has
\* released the connection (unbind) before it returns.
C2_RejectedReleasesConnection ==
    (pc = "done" /\ result = Rejected /\ conn.state # "none") => conn.state = "closed"

\* C3: the caller's password goes to the directory only in a bind, with the DN
\* of the single record the service-bound user search of the same call
\* answered, and after that search; never with a name the caller gave.
C3_PasswordOnlyWithResolvedDn ==
    \A k \in DOMAIN net :
        (net[k].cred = "caller" \/ (data.password # None /\ net[k].pw = data.password))
        => /\ net[k].op = "bind"
           /\ Len(response) = 1
           /\ net[k].dn = response[1].dn
           /\ net[k].dn # data.username
           /\ net[k].dn # username
           /\ \E i, j \in 1..(k - 1) :
                 /\ i < j
                 /\ i \in ServiceBinds
                 /\ net[i].ok
                 /\ UserSearchAt(j)
                 /\ net[j].n = 1

C3_Witness == \E k \in DOMAIN net : net[k].cred = "caller" /\ net[k].pw = <<"p", "w">>

\* A value that is unset, empty or whitespace only.
C4_Blank(s) == s = None \/ \A i \in 1..Len(s) : s[i] \in Whitespace

C4_CheckFails ==
    \/ ~validate_username(username, self.username_regex)
    \/ C4_Blank(data.password)
    \/ Len(populate_server_pool(cast_server_hosts(self.server_hosts))) = 0
    \/ C4_Blank(self.bind_user_dn)
    \/ C4_Blank(self.bind_user_password)
    \/ C4_Blank(self.user_search_base)
    \/ C4_Blank(self.user_search_filter)

\* C4: with an invalid normalized username, a None, empty or whitespace-only
\* password, an empty validated server pool, or a blank bind_user_dn,
\* bind_user_password, user_search_base or user_search_filter, authenticate
\* returns Rejected and sends nothing to the directory; a connection is
\* attempted only when all of these checks have passed.
C4_NoNetworkUnlessChecksPass ==
    pc # "idle" =>
        /\ C4_CheckFails => (pc = "done" /\ result = Rejected /\ Len(net) = 0)
        /\ (pc = "connect" \/ Len(net) > 0) => ~C4_CheckFails

C4_Witness ==
    /\ pc = "done"
    /\ data.password = <<" ">>
    /\ validate_username(username, self.username_regex)
    /\ result = Rejected

\* C5: when the user search answers zero records or more than one,
\* authenticate returns Rejected and binds no user; it never takes one of
\* several records.
C5_NotOneRecordRejects ==
    (\E j \in DOMAIN net : UserSearchAt(j) /\ net[j].n # 1)
    => /\ CallerBinds = {}
       /\ pc \in {"inspect", "done"}
       /\ pc = "done" => result = Rejected

C5_Witness == pc = "done" /\ UserSearched /\ Len(response) = 2 /\ result = Rejected

\* C6: when the checks and the service bind pass, the user search answers one
\* record whose memberships meet the permitted groups, and the bind of the
\* record's DN with the caller's password succeeds, authenticate returns
\* Accepted with the lowercased, filter-escaped username ('Al' gives 'al',
\* 'a*' gives 'a\2a'), not the raw input and not the DN; and with such a record
\* the call does go on to that bind.
C6_AcceptedCarriesNormalizedUsername ==
    ( /\ pc = "done"
      /\ OneUserRecord
      /\ Range(response[1].memberOf) \cap Range(permitted_groups) # {}
      /\ ~dn_undefined(response[1].dn) )
    => /\ CallerBinds # {}
       /\ (\A k \in CallerBinds : net[k].ok /\ net[k].dn = response[1].dn)
          => /\ result = Accepted(normalize_username(data.username))
             /\ data.username = <<"A", "l">> => result.value = <<"a", "l">>
             /\ data.username = <<"a", "*">> => result.value = <<"a", "\\", "2", "a">>
             /\ result.value # response[1].dn

C6_Witness ==
    /\ pc = "done"
    /\ data.username = <<"A", "l">>
    /\ self.filter_by_group
    /\ result = Accepted(<<"a", "l">>)

\* C7: with group filtering enabled, when the single found record's
\* membership values share nothing with the permitted groups, authenticate
\* returns Rejected and never binds with the caller's password.
C7_NoBindOutsidePermittedGroups ==
    ( /\ self.filter_by_group
      /\ pc \in {"rebind", "done"}
      /\ OneUserRecord
      /\ Range(response[1].memberOf) \cap Range(permitted_groups) = {} )
    => /\ pc = "done"
       /\ result = Rejected
       /\ CallerBinds = {}

C7_Witness ==
    /\ pc = "done"
    /\ self.filter_by_group
    /\ OneUserRecord
    /\ response[1].memberOf = <<"g3">>
    /\ permitted_groups = <<"g1">>
    /\ result = Rejected

\* C8: with group filtering disabled, a user for whom the search answers
\* exactly one record is Accepted whenever the directory takes the record's DN
\* with the caller's password, whatever the record's memberships, an empty
\* membership attribute included.
C8_FilterOffAcceptsUniqueUser ==
    ( /\ pc = "done"
      /\ ~self.filter_by_group
      /\ OneUserRecord
      /\ ~C4_Blank(response[1].dn)
      /\ cred_ok
      /\ \A k \in CallerBinds : net[k].ok )
    => result.kind = "Accepted"

\* C9: get_nested_groups ends on every group graph, cycles included, with a
\* duplicate-free list of every group reachable from the seed, and never
\* nests deeper than there are groups.
C9_NestedGroupsTerminate ==
    /\ Len(stack) <= Cardinality(Groups)
    /\ result # Raised("RecursionError")
    /\ (pc = "for_group" /\ gi > 1) =>
          /\ Cardinality(Range(nested_groups)) = Len(nested_groups)
          /\ Range(nested_groups) = Reachable(graph, self.allowed_groups[gi - 1])

\* C10: with nested expansion enabled, the permitted groups of the membership
\* check are allowed_groups together with the nested groups of every one of
\* its groups.
C10_PermittedGroupsUniteAllSeeds ==
    (self.allow_nested_groups /\ pc \in {"search", "inspect", "rebind"})
    => Range(permitted_groups) =
          Range(self.allowed_groups)
              \cup UNION {Reachable(graph, g) : g \in Range(self.allowed_groups)}

AddUserOps(op) == {k \in DOMAIN au.log : au.log[k].op = op}

\* C15: add_user calls the host framework's add_user only after the home
\* directory was found to exist, or the creation command ran exactly once and
\* exited with status zero; with the directory absent and creation disabled,
\* or a non-zero exit, add_user raises and the host's add_user is not called;
\* the command is never run when the directory exists.
C15_AddUserDelegatesAfterHomeDir ==
    /\ \A k \in AddUserOps("super.add_user") :
          \/ au.home = "exists"
          \/ /\ Cardinality(AddUserOps("Popen")) = 1
             /\ \A j \in AddUserOps("Popen") : j < k /\ au.log[j].returncode = 0
    /\ ( /\ au.pc = "done"
         /\ au.home # "exists"
         /\ \/ ~self.create_user_home_dir
            \/ \E j \in AddUserOps("Popen") : au.log[j].returncode # 0 )
       => /\ au.result.kind = "Raised"
          /\ AddUserOps("super.add_user") = {}
    /\ au.home = "exists" => AddUserOps("Popen") = {}
    /\ Cardinality(AddUserOps("super.add_user")) <= 1

C15_Witness ==
    /\ au.pc = "done"
    /\ au.home = "absent"
    /\ au.result = Returned
    /\ \E j \in AddUserOps("Popen") :
          au.log[j].cmd = << <<"mkhomedir_helper">>, <<"--home=", "a", "l">>, <<"a", "l">> >>

\* C11: a failure of the connector while the service connection is opened
\* (server unreachable, TLS upgrade failed, bind refused) makes authenticate
\* return Rejected; it never leaves authenticate as an exception.
C11_ConnectorFailuresReject ==
    ( /\ pc = "done"
      /\ \E k \in DOMAIN net :
            /\ ~net[k].ok
            /\ net[k].op \in {"open", "start_tls"} \/ k \in ServiceBinds )
    => result = Rejected

\* C12: once the connection is open, authenticate ends by returning Accepted
\* or Rejected for every configuration and directory answer; no error raised
\* in group expansion, search, result inspection or rebind escapes it.
C12_NoErrorEscapesAfterConnect ==
    (pc = "done" /\ conn.state # "none") => result.kind \in {"Accepted", "Rejected"}

\* C13: normalize_username is idempotent: normalizing the normalized username
\* again gives the same string, filter-special characters included.
C13_NormalizeUsernameIdempotent ==
    pc # "idle" =>
        normalize_username(normalize_username(data.username))
            = normalize_username(data.username)

\* The whole of u matches the pattern [cls]+.
C14_FullMatch(regex, u) == u # <<>> /\ \A i \in 1..Len(u) : u[i] \in regex.cls

\* C14: validate_username is true exactly for a non-empty username without
\* '/' that, when a pattern is configured, matches the pattern as a whole; a
\* username of which only a proper prefix matches is refused.
C14_ValidateUsernameFullMatch ==
    pc # "idle" =>
        ( validate_username(username, self.username_regex)
          <=> /\ username # <<>>
              /\ "/" \notin Range(username)
              /\ self.username_regex.compiled
                    => C14_FullMatch(self.username_regex, username) )

\* The reasons for which a call is refused.
C16_Reason ==
    \/ C4_CheckFails
    \/ \E k \in ServiceBinds : ~net[k].ok
    \/ \E j \in DOMAIN net : UserSearchAt(j) /\ net[j].n # 1
    \/ /\ self.filter_by_group
       /\ OneUserRecord
       /\ Range(response[1].memberOf) \cap Range(permitted_groups) = {}
    \/ \E k \in CallerBinds : ~net[k].ok /\ \A m \in CallerBinds : m <= k

\* C16: whatever the reason for which a call is refused (invalid input,
\* misconfiguration, failed service bind, unknown or ambiguous user, group not
\* permitted, wrong password), the caller gets the same value: None, without
\* payload and without an exception.
C16_RejectionsIndistinguishable ==
    /\ (pc = "done" /\ C16_Reason) => (result.kind = "Rejected" /\ result.value = None)
    /\ result.kind = "Rejected" => result.value = None

C16_Witness ==
    /\ pc = "done"
    /\ result.kind = "Rejected"
    /\ ~C4_CheckFails
    /\ \A k \in ServiceBinds : net[k].ok
    /\ \E k \in CallerBinds : ~net[k].ok /\ net[k].dn = UserDn

\* C17: when the user search answers one record without a DN (empty or
\* blank) or without the membership attribute (key absent, or no values),
\* authenticate returns Rejected, releases the connection and binds no user.
C17_IncompleteRecordRejects ==
    ( /\ pc \in {"rebind", "done"}
      /\ UserSearched
      /\ Len(response) = 1
      /\ "attributes" \in response[1].keys
      /\ \/ C4_Blank(response[1].dn)
         \/ response[1].memberOf = None
         \/ response[1].memberOf = <<>> )
    => /\ pc = "done"
       /\ result = Rejected
       /\ conn.state = "closed"
       /\ CallerBinds = {}

\* The hosts, trimmed and lowercased, that come before the first invalid one.
C18_ValidPrefix(hosts) ==
    LET clean(i) == lower(strip(hosts[i]))
        bad == {i \in 1..Len(hosts) : ~validate_host(clean(i))}
        n   == IF bad = {} THEN Len(hosts)
               ELSE (CHOOSE i \in bad : \A j \in bad : i <= j) - 1
    IN  [i \in 1..n |-> clean(i)]

\* The call has passed the checks of the username and the password.
C18_PoolBuilt ==
    /\ pc # "idle"
    /\ validate_username(username, self.username_regex)
    /\ ~C4_Blank(data.password)

\* C18: the server pool holds exactly the trimmed, lowercased hosts that come
\* before the first invalid host of server_hosts (a whitespace-delimited
\* string or a list), in their order; hosts after an invalid one are not
\* added, and with an invalid first host the pool is empty and authenticate
\* returns Rejected.
C18_PoolIsValidPrefix ==
    C18_PoolBuilt =>
        LET hosts == self.server_hosts.v
        IN  /\ self.server_hosts.t = "list"
            /\ conn_servers = C18_ValidPrefix(hosts)
            /\ hosts[1] = <<"A", ".", "b">> =>
                  conn_servers = << <<"a", ".", "b">>,
                                    <<"1", ".", "2", ".", "3", ".", "4">> >>
            /\ hosts[2] = <<"a", ".", ".", "b">> =>
                  conn_servers = << <<"l", "d", "a", "p", ":", "/", "/", "a", ".", "b",
                                      ":", "3", "8", "9">> >>
            /\ hosts[1] = <<"-", "a", ".", "b">> =>
                  (conn_servers = <<>> /\ pc = "done" /\ result = Rejected /\ net = <<>>)

C18_Witness ==
    /\ pc = "connect"
    /\ Len(self.server_hosts.v) = 3
    /\ Len(conn_servers) = 1

\* C19: authenticate leaves every configuration value as it was before the
\* call; nothing a call builds shows in the configuration of a later call.
C19_ConfigurationUnchanged == [][self' = self]_vars

\* C20: one authenticate call sends each bind once: one bind of the service
\* identity and one bind of the user's DN with the caller's password, so a
\* wrong password makes exactly one failed bind of the user's DN.
C20_EachIdentityBoundOnce ==
    /\ Cardinality(ServiceBinds) <= 1
    /\ Cardinality({k \in CallerBinds : net[k].op = "bind"}) <= 1

GroupSearches == {k \in DOMAIN net : net[k].op = "search" /\ net[k].base = "group_search_base"}

\* C21: nested-group searches are sent only when group filtering and nested
\* expansion are both enabled: with group filtering disabled no group search
\* is made whatever the nested-expansion flag, and with group filtering
\* enabled and nested expansion disabled the permitted groups are
\* allowed_groups as configured.
C21_GroupSearchOnlyWhenFiltering ==
    /\ GroupSearches # {} => (self.filter_by_group /\ self.allow_nested_groups)
    /\ ( /\ self.filter_by_group
         /\ ~self.allow_nested_groups
         /\ pc \in {"search", "inspect", "rebind"} )
       => permitted_groups = self.allowed_groups

\* What an attempt reads of a configuration: every trait as it is, and of
\* server_hosts the pool the attempt builds from it.
C22_Reads(c) ==
    [c EXCEPT !.server_hosts = populate_server_pool(cast_server_hosts(c.server_hosts))]

\* The checks made before the connection, on the configuration c.
C22_CheckFails(c) ==
    \/ ~validate_username(normalize_username(data.username), c.username_regex)
    \/ C4_Blank(data.password)
    \/ Len(populate_server_pool(cast_server_hosts(c.server_hosts))) = 0
    \/ C4_Blank(c.bind_user_dn)
    \/ C4_Blank(c.bind_user_password)
    \/ C4_Blank(c.user_search_base)
    \/ C4_Blank(c.user_search_filter)

==========================================================================
